---- MODULE Spec2Model ----
(***************************************************************************)
(* A model of chemspipy/api.py: the transport client (BaseChemSpider), the *)
(* search and record endpoints built on it (SearchApi, MassSpecApi), the   *)
(* facade (CustomApi), and the two collaborators the facade constructs     *)
(* (the Search Session `Results` and the Record `Compound`).               *)
(*                                                                         *)
(* Python values are modelled as follows: text is a TLA+ string, None is   *)
(* the reserved value NoneVal, a list is a sequence, a dict or a keyword   *)
(* argument set is a function from key names to values.                    *)
(***************************************************************************)
EXTENDS Naturals, Integers, Sequences, FiniteSets, TLC

VARIABLES
    api_url,    \* BaseChemSpider.api_url
    apikey,     \* BaseChemSpider.apikey
    headers,    \* BaseChemSpider.http.headers
    remote,     \* the remote service: transaction id -> [status, query]
    sessions,   \* the Search Session the application holds: the one its
                \* last search returned (a sequence of length 0 or 1)
    records,    \* the Record handles the application holds: the first
                \* MaxRecords of those its last lookup returned
    lastCall,   \* the application's call that has just ended and how it ended
                \* (none once the application has gone on)
    constructed \* history: the client configuration at the end of __init__

vars == <<api_url, apikey, headers, remote, sessions, records, lastCall,
          constructed>>

----------------------------------------------------------------------------
(* Bounds of the model *)

MaxLen == 2         \* longest get_compounds input; largest start and count
MaxTxn == 1         \* search transactions the remote service accepts
MaxRecords == 1     \* Record handles the application keeps

----------------------------------------------------------------------------
(* Values *)

NoneVal == "<None>"
NoKw == <<>>

Truthy(v) == v # NoneVal /\ v # ""

ASCENDING == "ascending"
DESCENDING == "descending"
CSID == "csid"

TxnName == <<"q1", "q2", "q3">>
TxnIds == {TxnName[i] : i \in 1..MaxTxn}
CSIDs == {"1", "2"}
Queries == {"benzene"}

SeqsUpTo(S, n) == UNION {[1..k -> S] : k \in 0..n}

RECURSIVE Join(_)
\* ','.join(list)
Join(s) ==
    IF s = <<>> THEN ""
    ELSE IF Len(s) = 1 THEN s[1]
    ELSE s[1] \o "," \o Join(Tail(s))

----------------------------------------------------------------------------
(* The HTTP layer and the remote service (the environment) *)

RecognizedCodes == {200, 400, 401, 404, 405, 413, 429, 500, 503}
UnrecognizedCodes == {204, 403, 502}
StatusCodes == RecognizedCodes \cup UnrecognizedCodes

ReadyStates == {"PartialResultReady", "ResultReady"}
TerminalStates == {"ResultReady", "Failed", "TooManyRecords"}

\* The transitions of a search transaction on the remote service.
RemoteSuccessors(s) ==
    CASE s = "Created" -> {"Scheduled"}
      [] s = "Scheduled" -> {"Processing"}
      [] s = "Processing" -> {"Suspended", "PartialResultReady", "ResultReady",
                              "Failed", "TooManyRecords"}
      [] s = "Suspended" -> {"Processing"}
      [] s = "PartialResultReady" -> {"ResultReady"}
      [] OTHER -> {}

StatusUrl(t) == api_url \o "/filter/" \o t \o "/status"
SubmitUrl == api_url \o "/filter/name"
DetailsUrl(c, fields) ==
    api_url \o "/records/" \o c \o "/details?fields=" \o Join(fields)

AllFields == <<"SMILES", "Formula", "CommonName">>
DetailsPayload(c) == [id |-> c, smiles |-> "smiles-of-" \o c]

\* The identifiers the remote database holds for a query, in its order.
Database(query) == <<"2", "1", "2", "2", "1">>

RemoteIds(t) == Database(remote[t].query)

StatusPayload(t) ==
    IF t \notin DOMAIN remote
    THEN [status |-> "Unknown"]
    ELSE IF remote[t].status \in ReadyStates
    THEN [status |-> remote[t].status, count |-> Len(RemoteIds(t)), message |-> ""]
    ELSE [status |-> remote[t].status]

\* What the remote service may answer to one HTTP request: a network
\* failure, any status with a body that does not decode, any non-200 status
\* with a body that decodes, or a 200 with the payload of the operation the
\* URL names.
Transport(req) ==
    LET same(r) == [resp |-> r, remote |-> remote]
        http(c, d, p) == [kind |-> "http", status_code |-> c, decodable |-> d,
                          payload |-> p]
        errors == {same([kind |-> "neterr"])}
                  \cup {same(http(c, FALSE, NoneVal)) : c \in StatusCodes}
                  \cup {same(http(c, TRUE, [error |-> c])) :
                            c \in StatusCodes \ {200}}
        submit ==
            IF req.verb = "POST" /\ req.url = SubmitUrl
               /\ Cardinality(DOMAIN remote) < MaxTxn
            THEN {[resp |-> http(200, TRUE, t),
                   remote |-> remote @@ (t :> [status |-> "Created",
                                               query |-> req.body.name])] :
                      t \in TxnIds \ DOMAIN remote}
            ELSE {}
        status ==
            IF req.verb = "GET"
            THEN {same(http(200, TRUE, StatusPayload(t))) :
                      t \in {u \in TxnIds : req.url = StatusUrl(u)}}
            ELSE {}
        details ==
            IF req.verb = "GET"
            THEN {same(http(200, TRUE, DetailsPayload(c))) :
                      c \in {d \in CSIDs : req.url = DetailsUrl(d, AllFields)}}
            ELSE {}
        known == {SubmitUrl} \cup {StatusUrl(u) : u \in TxnIds}
                 \cup {DetailsUrl(d, AllFields) : d \in CSIDs}
        other ==
            IF req.url \notin known
            THEN {same(http(200, TRUE, [url |-> req.url]))}
            ELSE {}
    IN errors \cup submit \cup status \cup details \cup other

----------------------------------------------------------------------------
(* BaseChemSpider *)

DefaultUserAgent == "ChemSpiPy/x Python/y "

\* __init__: the client configuration at the end of construction
InitHeaders(user_agent) ==
    [ua |-> IF Truthy(user_agent) THEN user_agent ELSE DefaultUserAgent,
     ct |-> "application/json"]
      \* ua: 'User-Agent', ct: 'Content-Type'

InitApiUrl(api_base_url, api_path, version) ==
    api_base_url \o "/" \o api_path \o "/" \o version

\* The binding of a call request(*pos, **kw) to the signature
\* request(self, api, endpoint, http_verb, record_id=None, **params).
RequestNames == <<"api", "endpoint", "http_verb", "record_id">>

BindRequest(pos, kw) ==
    LET given(i) == i <= Len(pos) \/ RequestNames[i] \in DOMAIN kw
        twice(i) == i <= Len(pos) /\ RequestNames[i] \in DOMAIN kw
        arg(i) == IF i <= Len(pos) THEN pos[i] ELSE kw[RequestNames[i]]
        named == {RequestNames[i] : i \in 1..4}
    IN IF \/ Len(pos) > 4
          \/ \E i \in 1..3 : ~given(i)
          \/ \E i \in 1..4 : twice(i)
       THEN [ok |-> FALSE]
       ELSE [ok |-> TRUE, api |-> arg(1), endpoint |-> arg(2), http_verb |-> arg(3),
             record_id |-> IF given(4) THEN arg(4) ELSE NoneVal,
             params |-> [k \in DOMAIN kw \ named |-> kw[k]]]

\* request, lines 164-172: the URL of the request
RequestUrl(api, endpoint, record_id, params) ==
    IF Truthy(record_id)
    THEN LET url == api_url \o "/" \o api \o "/" \o record_id \o "/" \o endpoint
         IN IF "fields" \in DOMAIN params
            THEN url \o "?fields=" \o Join(params.fields)
            ELSE url
    ELSE api_url \o "/" \o api \o "/" \o endpoint

\* (a variant that leaves one of the codes out of the tested ones)
StatusError_No429(code) ==
    CASE code = 200 -> NoneVal
      [] code \in {400, 401, 404, 405, 413, 500, 503} -> "ChemSpiPyAuthError"
      [] OTHER -> "ChemSpiPyServerError"

\* request, lines 195-221: the exception a status code maps to
StatusError(code) ==
    CASE code = 200 -> NoneVal
      [] code \in {400, 401, 404, 405, 413, 429, 500, 503} -> "ChemSpiPyAuthError"
      [] OTHER -> "ChemSpiPyServerError"

StatusMessage(code, text) ==
    CASE code = 400 -> "Bad Request. Check the request you sent and try again."
      [] code = 401 -> "Unauthorized. Check you have supplied the correct API key and that you have sent it as an HTTP Header called 'apikey'."
      [] code = 404 -> "Not Found. The requested endpoint URL is not recognized. Change your request and try again."
      [] code = 405 -> "Method Not Allowed. The verb is incorrect for the endpoint. Change your request and try again."
      [] code = 413 -> "Payload Too Large. The request you sent was too big to handle. Change your request and try again."
      [] code = 429 -> "Too Many Requests. Send fewer requests, or use rate-limiting to slow them down, then try again."
      [] code = 500 -> "Internal Server Error. Wait and try again."
      [] code = 503 -> "Service Unavailable. Wait and try again."
      [] OTHER -> text

\* How a call ends: it returns a value or raises; `sent` lists the HTTP
\* requests it issued, `responses` what came back, `headers` and `remote`
\* are the session headers and the remote service after it.
Ended(outcome, exc, msg, value, sent, responses, hdrs, rem) ==
    [outcome |-> outcome, exc |-> exc, msg |-> msg, value |-> value,
     sent |-> sent, responses |-> responses, headers |-> hdrs, remote |-> rem]

Raised(exc, msg, sent, responses, hdrs, rem) ==
    Ended("raise", exc, msg, NoneVal, sent, responses, hdrs, rem)

\* (a variant that decodes the body before it tests the status code)
RequestReceive_DecodeFirst(req, hdrs, t) ==
    LET r == t.resp IN
    IF r.kind = "neterr"
    THEN Raised("ChemSpiPyError", "RequestException", <<req>>, <<r>>, hdrs, t.remote)
    ELSE IF ~r.decodable
    THEN Raised("ChemSpiPyParseError", "Unable to parse json response",
                <<req>>, <<r>>, hdrs, t.remote)
    ELSE IF StatusError(r.status_code) # NoneVal
    THEN Raised(StatusError(r.status_code),
                StatusMessage(r.status_code, "response.text"),
                <<req>>, <<r>>, hdrs, t.remote)
    ELSE Ended("return", NoneVal, "", r.payload, <<req>>, <<r>>, hdrs, t.remote)

\* request, lines 195-228: the response's status code, then its body
RequestReceive(req, hdrs, t) ==
    LET r == t.resp IN
    IF r.kind = "neterr"
    THEN Raised("ChemSpiPyError", "RequestException", <<req>>, <<r>>, hdrs, t.remote)
    ELSE IF StatusError(r.status_code) # NoneVal
    THEN Raised(StatusError(r.status_code),
                StatusMessage(r.status_code, "response.text"),
                <<req>>, <<r>>, hdrs, t.remote)
    ELSE IF ~r.decodable
    THEN Raised("ChemSpiPyParseError", "Unable to parse json response",
                <<req>>, <<r>>, hdrs, t.remote)
    ELSE Ended("return", NoneVal, "", r.payload, <<req>>, <<r>>, hdrs, t.remote)

\* (a variant that replaces the session headers instead of updating them)
UpdatedHeaders_Replaced(hdrs, key) == "apikey" :> key

\* request, lines 180 and 189: self.http.headers.update({'apikey': self.apikey})
UpdatedHeaders(hdrs, key) == ("apikey" :> key) @@ hdrs

\* request(*pos, **kw): every way the call can end
request(pos, kw) ==
    LET b == BindRequest(pos, kw) IN
    IF ~b.ok
    THEN {Raised("TypeError", "request() missing required positional argument",
                 <<>>, <<>>, headers, remote)}
    ELSE
    LET url == RequestUrl(b.api, b.endpoint, b.record_id, b.params)
        updated == UpdatedHeaders(headers, apikey)
    IN  IF b.http_verb = "POST"
        THEN IF "data" \notin DOMAIN b.params
             THEN {Raised("KeyError", "data", <<>>, <<>>, updated, remote)}
             ELSE LET req == [verb |-> "POST",
                              url |-> api_url \o "/" \o b.api \o "/" \o b.endpoint,
                              body |-> b.params.data, headers |-> updated]
                  IN {RequestReceive(req, updated, t) : t \in Transport(req)}
        ELSE IF b.http_verb = "GET"
        THEN LET req == [verb |-> "GET", url |-> url, body |-> NoneVal,
                         headers |-> updated]
             IN {RequestReceive(req, updated, t) : t \in Transport(req)}
        ELSE {Raised("UnboundLocalError", "response", <<>>, <<>>, headers, remote)}


----------------------------------------------------------------------------
(* SearchApi and MassSpecApi *)

async_simple_search(query) ==
    request(<<"filter", "name", "POST">>, [data |-> [name |-> query]])

async_simple_search_ordered(query, order, direction) ==
    request(<<"filter", "name", "POST">>,
            [data |-> [name |-> query, orderBy |-> order,
                       orderDirection |-> direction]])

get_async_search_status(rid) ==
    request(<<"filter", "status", "GET">>, [record_id |-> rid])

\* (a variant that leaves the transaction id out of the request)
get_async_search_status_and_count_NoId(rid) ==
    request(<<"filter", "status", "GET">>, NoKw)

get_async_search_status_and_count(rid) ==
    request(<<"filter", "status", "GET">>, [record_id |-> rid])

\* Compound(cs, csid): a Record handle, not yet populated
Compound(csid) == [identifier |-> csid, populated |-> FALSE, fields |-> NoneVal]

\* [Compound(self, el.text) for el in response]: the elements of a decoded
\* JSON payload have no attribute `text`
CompoundsOfText(e) ==
    IF e.outcome = "raise" \/ e.value = <<>>
    THEN e
    ELSE [e EXCEPT !.outcome = "raise", !.exc = "AttributeError",
                   !.msg = "text", !.value = NoneVal]

get_async_search_result(rid) ==
    {CompoundsOfText(e) :
        e \in request(<<"Search", "GetAsyncSearchResult">>, [rid |-> rid])}

get_async_search_result_part(rid, start, count) ==
    {CompoundsOfText(e) :
        e \in request(<<"Search", "GetAsyncSearchResultPart">>,
                      [rid |-> rid, start |-> start, count |-> count])}

\* (a variant that leaves the identifier out of the request)
get_extended_compound_info_NoId(csid, params) ==
    IF "fields" \notin DOMAIN params
    THEN {Raised("KeyError", "fields", <<>>, <<>>, headers, remote)}
    ELSE request(<<"records", "details", "GET">>, [fields |-> params.fields])

get_extended_compound_info(csid, params) ==
    IF "fields" \notin DOMAIN params
    THEN {Raised("KeyError", "fields", <<>>, <<>>, headers, remote)}
    ELSE request(<<"records", "details", "GET">>,
                 [record_id |-> csid, fields |-> params.fields])

----------------------------------------------------------------------------
(* CustomApi *)

get_compound(csid) == Compound(csid)

RECURSIVE Distinct(_)
Distinct(s) ==
    IF s = <<>> THEN <<>>
    ELSE LET front == SubSeq(s, 1, Len(s) - 1)
         IN IF \E j \in 1..Len(front) : front[j] = s[Len(s)]
            THEN Distinct(front)
            ELSE Append(Distinct(front), s[Len(s)])

\* (a variant that drops repeated identifiers)
get_compounds_Distinct(csids) ==
    [i \in 1..Len(Distinct(csids)) |-> Compound(Distinct(csids)[i])]

get_compounds(csids) == [i \in 1..Len(csids) |-> Compound(csids[i])]

\* search's defaults: order=None, direction=ASCENDING, raise_errors=False
DefaultOrder == NoneVal
DefaultDirection == ASCENDING
\* (a variant whose default is to raise)
DefaultRaiseErrors_True == TRUE

DefaultRaiseErrors == FALSE

BindSearch(kw) ==
    [order |-> IF "order" \in DOMAIN kw THEN kw.order ELSE DefaultOrder,
     direction |-> IF "direction" \in DOMAIN kw THEN kw.direction
                   ELSE DefaultDirection,
     raise_errors |-> IF "raise_errors" \in DOMAIN kw THEN kw.raise_errors
                      ELSE DefaultRaiseErrors]

\* (a variant that looks at the order alone)
search_OrderAlone(query, order, direction, raise_errors) ==
    IF Truthy(order)
    THEN [searchfunc |-> "async_simple_search_ordered",
          searchargs |-> <<query, order, direction>>,
          raise_errors |-> raise_errors]
    ELSE [searchfunc |-> "async_simple_search",
          searchargs |-> <<query>>,
          raise_errors |-> raise_errors]

\* (a variant that does not pass raise_errors on)
search_FlagDropped(query, order, direction, raise_errors) ==
    IF Truthy(order) /\ Truthy(direction)
    THEN [searchfunc |-> "async_simple_search_ordered",
          searchargs |-> <<query, order, direction>>,
          raise_errors |-> FALSE]
    ELSE [searchfunc |-> "async_simple_search",
          searchargs |-> <<query>>,
          raise_errors |-> FALSE]

\* search's body: the arguments it constructs Results with
search(query, order, direction, raise_errors) ==
    IF Truthy(order) /\ Truthy(direction)
    THEN [searchfunc |-> "async_simple_search_ordered",
          searchargs |-> <<query, order, direction>>,
          raise_errors |-> raise_errors]
    ELSE [searchfunc |-> "async_simple_search",
          searchargs |-> <<query>>,
          raise_errors |-> raise_errors]

\* searchfunc(*searchargs)
ApplySearchFunc(searchfunc, searchargs) ==
    IF searchfunc = "async_simple_search_ordered"
    THEN async_simple_search_ordered(searchargs[1], searchargs[2], searchargs[3])
    ELSE async_simple_search(searchargs[1])

----------------------------------------------------------------------------
(* The Search Session (Results) and the Record (Compound) attribute access *)

\* An operation's failure stored instead of raised: the call returns `sentinel`.
Softened(e, sentinel) ==
    [e EXCEPT !.outcome = "return", !.exc = NoneVal, !.msg = "",
              !.value = sentinel]

\* Results(cs, searchfunc, searchargs, raise_errors), the submission having
\* ended as e: the session constructed (none when the constructor raises)
\* and how the constructor ends.
Results(c, e) ==
    LET failed == e.outcome = "raise"
        s == [raise_errors |-> c.raise_errors,
              transaction_id |-> IF failed THEN NoneVal ELSE e.value,
              status |-> "Unknown", count |-> NoneVal,
              exception |-> IF failed THEN e.exc ELSE NoneVal]
    IN  IF failed /\ c.raise_errors
        THEN [made |-> <<>>, end |-> e]
        ELSE [made |-> <<s>>, end |-> Softened(e, s)]

\* Results.status(), the status check having ended as e
ResultsStatus(s, e) ==
    IF e.outcome = "raise"
    THEN IF s.raise_errors
         THEN [session |-> s, end |-> e]
         ELSE [session |-> [s EXCEPT !.exception = e.exc],
               end |-> Softened(e, NoneVal)]
    ELSE LET s2 == [s EXCEPT !.status = e.value.status,
                             !.count = IF "count" \in DOMAIN e.value
                                       THEN e.value.count ELSE s.count]
         IN [session |-> s2, end |-> [e EXCEPT !.value = s2.status]]

\* Retrieving the results of a session: the ways it can end
ResultsRetrieve(s) ==
    LET ends == IF s.status \in ReadyStates
                THEN get_async_search_result(s.transaction_id)
                ELSE {Raised("NotReadyError", s.status, <<>>, <<>>,
                             headers, remote)}
    IN {IF e.outcome = "raise"
        THEN IF s.raise_errors
             THEN [session |-> s, end |-> e, raw |-> e]
             ELSE [session |-> [s EXCEPT !.exception = e.exc],
                   end |-> Softened(e, <<>>), raw |-> e]
        ELSE [session |-> s, end |-> e, raw |-> e] : e \in ends}

\* Reading an attribute other than the identifier: the ways it can end
CompoundAttribute(r) ==
    IF r.populated
    THEN {[record |-> r,
           end |-> Ended("return", NoneVal, "", r.fields, <<>>, <<>>,
                         headers, remote)]}
    ELSE {[record |-> IF e.outcome = "return"
                      THEN [r EXCEPT !.populated = TRUE, !.fields = e.value]
                      ELSE r,
           end |-> e] :
             e \in get_extended_compound_info(r.identifier,
                                              [fields |-> AllFields])}

----------------------------------------------------------------------------
(* The application's calls *)

NoCall == [op |-> "none"]

Pre == [headers |-> headers, remote |-> remote]

Call(op, args, e) == [op |-> op, args |-> args, pre |-> Pre, end |-> e]

\* The client is synchronous and single-threaded: the application makes its
\* next call when the last one has ended.
Idle == lastCall = NoCall

Effect(e) ==
    /\ headers' = e.headers
    /\ remote' = e.remote
    /\ UNCHANGED <<api_url, apikey, constructed>>

\* The application calls request directly.
DoRequest ==
    /\ Idle
    /\ \E api \in {"filter"}, endpoint \in {"status"},
       verb \in {"GET", "POST", "PUT"},
       record_id \in {NoneVal, "q1"},
       kw \in {NoKw, [fields |-> AllFields], [data |-> [name |-> "benzene"]]} :
      \E e \in request(<<api, endpoint, verb, record_id>>, kw) :
        /\ lastCall' = Call("request",
                            [api |-> api, endpoint |-> endpoint, http_verb |-> verb,
                             record_id |-> record_id, params |-> kw], e)
        /\ Effect(e)
        /\ UNCHANGED <<sessions, records>>

AsyncSimpleSearch ==
    /\ Idle
    /\ \E query \in Queries : \E e \in async_simple_search(query) :
        /\ lastCall' = Call("async_simple_search", [query |-> query], e)
        /\ Effect(e)
        /\ UNCHANGED <<sessions, records>>

AsyncSimpleSearchOrdered ==
    /\ Idle
    /\ \E query \in Queries, order \in {CSID}, direction \in {ASCENDING, DESCENDING} :
      \E e \in async_simple_search_ordered(query, order, direction) :
        /\ lastCall' = Call("async_simple_search_ordered",
                            [query |-> query, order |-> order,
                             direction |-> direction], e)
        /\ Effect(e)
        /\ UNCHANGED <<sessions, records>>

GetAsyncSearchStatus ==
    /\ Idle
    /\ \E rid \in TxnIds : \E e \in get_async_search_status(rid) :
        /\ lastCall' = Call("get_async_search_status", [rid |-> rid], e)
        /\ Effect(e)
        /\ UNCHANGED <<sessions, records>>

GetAsyncSearchStatusAndCount ==
    /\ Idle
    /\ \E rid \in TxnIds : \E e \in get_async_search_status_and_count(rid) :
        /\ lastCall' = Call("get_async_search_status_and_count", [rid |-> rid], e)
        /\ Effect(e)
        /\ UNCHANGED <<sessions, records>>

GetAsyncSearchResult ==
    /\ Idle
    /\ \E rid \in TxnIds : \E e \in get_async_search_result(rid) :
        /\ lastCall' = Call("get_async_search_result", [rid |-> rid], e)
        /\ Effect(e)
        /\ UNCHANGED <<sessions, records>>

GetAsyncSearchResultPart ==
    /\ Idle
    /\ \E rid \in TxnIds, start \in 0..MaxLen, count \in -1..MaxLen :
      \E e \in get_async_search_result_part(rid, start, count) :
        /\ lastCall' = Call("get_async_search_result_part",
                            [rid |-> rid, start |-> start, count |-> count], e)
        /\ Effect(e)
        /\ UNCHANGED <<sessions, records>>

GetExtendedCompoundInfo ==
    /\ Idle
    /\ \E csid \in CSIDs, params \in {NoKw, [fields |-> AllFields]} :
      \E e \in get_extended_compound_info(csid, params) :
        /\ lastCall' = Call("get_extended_compound_info",
                            [csid |-> csid, params |-> params], e)
        /\ Effect(e)
        /\ UNCHANGED <<sessions, records>>

\* The keyword arguments the application may pass to search.
SearchKw ==
    LET opt(name, vals) == {NoKw} \cup {name :> v : v \in vals}
    IN {o @@ d @@ r : o \in opt("order", {"", CSID}),
                      d \in opt("direction", {NoneVal, DESCENDING}),
                      r \in opt("raise_errors", BOOLEAN)}

Search ==
    /\ Idle
    /\ \E query \in Queries, kw \in SearchKw :
         LET a == BindSearch(kw)
             c == search(query, a.order, a.direction, a.raise_errors)
         IN \E e \in ApplySearchFunc(c.searchfunc, c.searchargs) :
              LET r == Results(c, e) IN
              /\ sessions' = IF r.made = <<>> THEN sessions ELSE r.made
              /\ lastCall' = Call("search", [query |-> query, kw |-> kw], r.end)
                             @@ [via |-> c, raw |-> e]
              /\ Effect(e)
              /\ UNCHANGED records

SessionStatus ==
    /\ Idle
    /\ \E i \in 1..Len(sessions) :
        /\ sessions[i].transaction_id # NoneVal
        /\ \E e \in get_async_search_status_and_count(sessions[i].transaction_id) :
             LET r == ResultsStatus(sessions[i], e) IN
             /\ sessions' = [sessions EXCEPT ![i] = r.session]
             /\ lastCall' = Call("Results.status",
                                 [session |-> i, was |-> sessions[i]], r.end)
                            @@ [raw |-> e]
             /\ Effect(e)
             /\ UNCHANGED records

SessionResults ==
    /\ Idle
    /\ \E i \in 1..Len(sessions) :
        /\ sessions[i].transaction_id # NoneVal
        /\ \E r \in ResultsRetrieve(sessions[i]) :
             /\ sessions' = [sessions EXCEPT ![i] = r.session]
             /\ lastCall' = Call("Results.results",
                                 [session |-> i, was |-> sessions[i]], r.end)
                            @@ [raw |-> r.raw]
             /\ Effect(r.raw)
             /\ UNCHANGED records

Kept(handles) ==
    SubSeq(handles, 1, IF Len(handles) < MaxRecords THEN Len(handles) ELSE MaxRecords)

GetCompound ==
    /\ Idle
    /\ \E csid \in CSIDs :
        /\ records' = Kept(<<get_compound(csid)>>)
        /\ lastCall' = Call("get_compound", [csid |-> csid],
                            Ended("return", NoneVal, "", get_compound(csid),
                                  <<>>, <<>>, headers, remote))
        /\ UNCHANGED <<api_url, apikey, headers, remote, sessions, constructed>>

GetCompounds ==
    /\ Idle
    /\ \E csids \in SeqsUpTo(CSIDs, MaxLen) :
        /\ records' = Kept(get_compounds(csids))
        /\ lastCall' = Call("get_compounds", [csids |-> csids],
                            Ended("return", NoneVal, "", get_compounds(csids),
                                  <<>>, <<>>, headers, remote))
        /\ UNCHANGED <<api_url, apikey, headers, remote, sessions, constructed>>

ReadIdentifier ==
    /\ Idle
    /\ \E i \in 1..Len(records) :
        /\ lastCall' = Call("Compound.identifier", [record |-> i, was |-> records[i]],
                            Ended("return", NoneVal, "", records[i].identifier,
                                  <<>>, <<>>, headers, remote))
        /\ UNCHANGED <<api_url, apikey, headers, remote, sessions, records, constructed>>

ReadAttribute ==
    /\ Idle
    /\ \E i \in 1..Len(records) : \E r \in CompoundAttribute(records[i]) :
        /\ records' = [records EXCEPT ![i] = r.record]
        /\ lastCall' = Call("Compound.attribute", [record |-> i, was |-> records[i]],
                            r.end)
        /\ Effect(r.end)
        /\ UNCHANGED sessions

\* The application goes on after its call.
Resume ==
    /\ ~Idle
    /\ lastCall' = NoCall
    /\ UNCHANGED <<api_url, apikey, headers, remote, sessions, records, constructed>>

\* The remote service works on a search transaction.
RemoteAdvance ==
    \E t \in DOMAIN remote : \E s \in RemoteSuccessors(remote[t].status) :
        /\ remote' = [remote EXCEPT ![t].status = s]
        /\ lastCall' = NoCall
        /\ UNCHANGED <<api_url, apikey, headers, sessions, records, constructed>>


\* The state at the end of BaseChemSpider.__init__
Init ==
    /\ \E user_agent \in {NoneVal, "my-app"} : headers = InitHeaders(user_agent)
    /\ apikey \in {"key-1"}
    /\ api_url = InitApiUrl("https://api.rsc.org", "compounds", "v1")
    /\ remote = <<>>
    /\ sessions = <<>>
    /\ records = <<>>
    /\ lastCall = NoCall
    /\ constructed = [headers |-> headers, apikey |-> apikey, api_url |-> api_url]

NextTransport == DoRequest \/ Resume

SpecTransport == Init /\ [][NextTransport]_vars

NextSearchApi ==
    \/ AsyncSimpleSearch
    \/ AsyncSimpleSearchOrdered
    \/ GetAsyncSearchStatus
    \/ GetAsyncSearchStatusAndCount
    \/ GetAsyncSearchResult
    \/ GetAsyncSearchResultPart
    \/ Resume
    \/ RemoteAdvance

SpecSearchApi == Init /\ [][NextSearchApi]_vars

NextSession ==
    \/ Search
    \/ SessionStatus
    \/ SessionResults
    \/ GetAsyncSearchStatus
    \/ GetAsyncSearchStatusAndCount
    \/ Resume
    \/ RemoteAdvance

SpecSession == Init /\ [][NextSession]_vars

NextRecord ==
    \/ GetCompound
    \/ GetCompounds
    \/ ReadIdentifier
    \/ ReadAttribute
    \/ GetExtendedCompoundInfo
    \/ Resume

SpecRecord == Init /\ [][NextRecord]_vars

Next ==
    \/ DoRequest
    \/ AsyncSimpleSearch
    \/ AsyncSimpleSearchOrdered
    \/ GetAsyncSearchStatus
    \/ GetAsyncSearchStatusAndCount
    \/ GetAsyncSearchResult
    \/ GetAsyncSearchResultPart
    \/ GetExtendedCompoundInfo
    \/ Search
    \/ SessionStatus
    \/ SessionResults
    \/ GetCompound
    \/ GetCompounds
    \/ ReadIdentifier
    \/ ReadAttribute
    \/ Resume
    \/ RemoteAdvance

Spec == Init /\ [][Next]_vars

\* Every operation of the client, the remote service standing still.
NextClient ==
    \/ DoRequest
    \/ AsyncSimpleSearch
    \/ AsyncSimpleSearchOrdered
    \/ GetAsyncSearchStatus
    \/ GetAsyncSearchStatusAndCount
    \/ GetAsyncSearchResult
    \/ GetAsyncSearchResultPart
    \/ GetExtendedCompoundInfo
    \/ Search
    \/ SessionStatus
    \/ SessionResults
    \/ GetCompound
    \/ GetCompounds
    \/ ReadIdentifier
    \/ ReadAttribute
    \/ Resume

SpecClient == Init /\ [][NextClient]_vars

----------------------------------------------------------------------------
(* What the claims speak about *)

\* How the underlying API call ended, before a session softened it.
Raw == IF "raw" \in DOMAIN lastCall THEN lastCall.raw ELSE lastCall.end

Sent == lastCall.end.sent
Responses == lastCall.end.responses

TransportErrors ==
    {"ChemSpiPyError", "ChemSpiPyAuthError", "ChemSpiPyServerError",
     "ChemSpiPyParseError"}

\* Every response the call got was a 200 whose body decodes.
AllAnswered ==
    \A i \in 1..Len(Responses) :
        /\ Responses[i].kind = "http"
        /\ Responses[i].status_code = 200
        /\ Responses[i].decodable

\* Positions start .. start+count-1 of ids (0-indexed), count = -1 meaning
\* through to the end.
Slice(ids, start, count) ==
    LET stop == IF count = -1 \/ start + count > Len(ids)
                THEN Len(ids) ELSE start + count
    IN SubSeq(ids, start + 1, stop)

----------------------------------------------------------------------------
(* C1: whenever request gets a response whose status is 500 or 503, or a   *)
(* status that is not one of the recognized codes, it raises               *)
(* ChemSpiPyServerError (and so never ChemSpiPyAuthError).                 *)

GotStatus(codes) ==
    /\ lastCall.op = "request"
    /\ Len(Responses) = 1
    /\ Responses[1].kind = "http"
    /\ Responses[1].status_code \in codes

C1_ServerErrorOn5xx ==
    GotStatus({500, 503} \cup (StatusCodes \ RecognizedCodes)) =>
        /\ lastCall.end.outcome = "raise"
        /\ lastCall.end.exc = "ChemSpiPyServerError"

----------------------------------------------------------------------------
(* C2: retrieving the results of a search that is ready, the remote        *)
(* service answering every request, returns one Record handle per          *)
(* identifier of the remote result list, in the remote order               *)
(* (get_async_search_result), or the handles of positions                  *)
(* start .. start+count-1 of it (get_async_search_result_part); the call   *)
(* returns that sequence and does not raise.                               *)

RetrievalOps == {"get_async_search_result", "get_async_search_result_part"}

RetrievalOfReady ==
    /\ lastCall.op \in RetrievalOps
    /\ lastCall.args.rid \in DOMAIN lastCall.pre.remote
    /\ lastCall.pre.remote[lastCall.args.rid].status \in ReadyStates

ExpectedIds ==
    LET ids == Database(lastCall.pre.remote[lastCall.args.rid].query)
    IN IF lastCall.op = "get_async_search_result"
       THEN ids
       ELSE Slice(ids, lastCall.args.start, lastCall.args.count)

C2_ReadyResultsInRemoteOrder ==
    (RetrievalOfReady /\ AllAnswered) =>
        /\ lastCall.end.outcome = "return"
        /\ lastCall.end.value = [i \in 1..Len(ExpectedIds) |-> Compound(ExpectedIds[i])]

----------------------------------------------------------------------------
(* C6: retrieving the results of a search transaction that has never been  *)
(* ready raises a readiness error, which is no transport error; it never   *)
(* returns a list.                                                         *)

ReadinessErrors == {"NotReadyError"}

RetrievalOfUnready ==
    /\ lastCall.op \in RetrievalOps
    /\ lastCall.args.rid \in DOMAIN lastCall.pre.remote
    /\ lastCall.pre.remote[lastCall.args.rid].status \notin ReadyStates

C6_UnreadyRetrievalSignalsReadiness ==
    RetrievalOfUnready =>
        /\ lastCall.end.outcome = "raise"
        /\ lastCall.end.exc \in ReadinessErrors
        /\ lastCall.end.exc \notin TransportErrors

----------------------------------------------------------------------------
(* C3: search called without raise_errors.                                 *)

SearchWithoutFlag ==
    /\ lastCall.op = "search"
    /\ "raise_errors" \notin DOMAIN lastCall.args.kw

\* C3 as claimed: when the caller of search does not supply raise_errors,
\* the session is created with raise_errors=True, and a transport failure
\* during submission is raised at the call site.
C3_DefaultRaises ==
    SearchWithoutFlag =>
        /\ lastCall.via.raise_errors = TRUE
        /\ Raw.outcome = "raise" => lastCall.end.outcome = "raise"

\* C3 as amended: when the caller of search does not supply raise_errors,
\* the session is created with raise_errors=False; a transport failure
\* during submission is then stored in the session's exception attribute
\* and search returns the session, and a failure while polling a session
\* whose flag is False is stored too.
C3_DefaultStores ==
    /\ SearchWithoutFlag =>
        /\ lastCall.via.raise_errors = FALSE
        /\ lastCall.end.outcome = "return"
        /\ Len(sessions) = 1
        /\ sessions[1].raise_errors = FALSE
        /\ lastCall.end.value = sessions[1]
        /\ Raw.outcome = "raise" => sessions[1].exception = Raw.exc
    /\ (/\ lastCall.op = "Results.status"
        /\ ~lastCall.args.was.raise_errors
        /\ Raw.outcome = "raise") =>
            /\ lastCall.end.outcome = "return"
            /\ sessions[lastCall.args.session].exception = Raw.exc

C3_Witness ==
    /\ SearchWithoutFlag
    /\ Raw.outcome = "raise"
    /\ Raw.exc \in TransportErrors
    /\ Len(sessions) = 1
    /\ sessions[1].exception = Raw.exc

----------------------------------------------------------------------------
(* C4: the submission variant search chooses.                              *)

OrderGiven == "order" \in DOMAIN lastCall.args.kw
GivenOrder == lastCall.args.kw.order
GivenDirection ==
    IF "direction" \in DOMAIN lastCall.args.kw
    THEN lastCall.args.kw.direction ELSE "ascending"

Ordered(order, direction) ==
    /\ lastCall.via.searchfunc = "async_simple_search_ordered"
    /\ lastCall.via.searchargs = <<lastCall.args.query, order, direction>>
    /\ Len(Sent) = 1
    /\ Sent[1].verb = "POST"
    /\ Sent[1].body = [name |-> lastCall.args.query, orderBy |-> order,
                       orderDirection |-> direction]

Plain ==
    /\ lastCall.via.searchfunc = "async_simple_search"
    /\ lastCall.via.searchargs = <<lastCall.args.query>>
    /\ Len(Sent) = 1
    /\ Sent[1].verb = "POST"
    /\ Sent[1].body = [name |-> lastCall.args.query]

CarriesFlag ==
    "raise_errors" \in DOMAIN lastCall.args.kw =>
        /\ lastCall.via.raise_errors = lastCall.args.kw.raise_errors
        /\ lastCall.end.outcome = "return" =>
              lastCall.end.value.raise_errors = lastCall.args.kw.raise_errors

\* C4 as claimed: search submits through async_simple_search_ordered
\* (query, order, direction) whenever an order is given, for every value of
\* direction, and through async_simple_search (query) exactly when no
\* order is given; the session carries the caller's raise_errors flag.
C4_OrderedWheneverOrderGiven ==
    lastCall.op = "search" =>
        /\ IF OrderGiven /\ Truthy(GivenOrder)
           THEN Ordered(GivenOrder, GivenDirection)
           ELSE Plain
        /\ CarriesFlag

\* C4 as amended: search submits through async_simple_search_ordered
\* (query, order, direction) exactly when an order is given and both the
\* order and the direction are truthy (not None, not empty), and through
\* async_simple_search (query) otherwise; the session carries the caller's
\* raise_errors flag.
C4_OrderedWhenOrderAndDirection ==
    lastCall.op = "search" =>
        /\ IF OrderGiven /\ Truthy(GivenOrder) /\ Truthy(GivenDirection)
           THEN Ordered(GivenOrder, GivenDirection)
           ELSE Plain
        /\ CarriesFlag

C4_Witness ==
    /\ lastCall.op = "search"
    /\ OrderGiven
    /\ Truthy(GivenOrder)
    /\ ~Truthy(GivenDirection)
    /\ lastCall.via.searchfunc = "async_simple_search"
    /\ lastCall.end.outcome = "return"

----------------------------------------------------------------------------
(* C5: the shared client configuration after construction.                 *)

----------------------------------------------------------------------------
(* C7: a status call on a submitted search sends exactly one HTTP request, *)
(* a GET of the status endpoint of that transaction id; when it returns,   *)
(* it returns the state the remote service is in; it leaves the remote     *)
(* transaction and the session's transaction_id as they were.              *)

StatusOps ==
    {"get_async_search_status", "get_async_search_status_and_count",
     "Results.status"}

PolledId ==
    IF lastCall.op = "Results.status"
    THEN lastCall.args.was.transaction_id ELSE lastCall.args.rid

StatusOfSubmitted ==
    /\ lastCall.op \in StatusOps
    /\ PolledId \in DOMAIN lastCall.pre.remote

C7_StatusOneRoundTrip ==
    StatusOfSubmitted =>
        /\ Len(Sent) = 1
        /\ Sent[1].verb = "GET"
        /\ Sent[1].url = constructed.api_url \o "/filter/" \o PolledId \o "/status"
        /\ Len(Responses) = 1
        /\ Raw.outcome = "return" =>
              /\ Raw.value.status = lastCall.pre.remote[PolledId].status
              /\ lastCall.end.outcome = "return"
        /\ remote = lastCall.pre.remote
        /\ lastCall.op = "Results.status" =>
              /\ sessions[lastCall.args.session].transaction_id = PolledId
              /\ Raw.outcome = "return" =>
                    /\ lastCall.end.value = lastCall.pre.remote[PolledId].status
                    /\ sessions[lastCall.args.session].status = lastCall.end.value

\* a poll that returns after an earlier poll of the same session returned
C7_Witness ==
    /\ lastCall.op = "Results.status"
    /\ StatusOfSubmitted
    /\ lastCall.args.was.status = "Processing"
    /\ Raw.outcome = "return"
    /\ lastCall.end.value = "ResultReady"

----------------------------------------------------------------------------
(* C8: a failure in an operation of a Search Session (submission, status   *)
(* polling, result retrieval) is raised to the caller when the session's   *)
(* raise_errors is True, and is stored in the session's exception          *)
(* attribute, the operation returning, when it is False; the flag is the   *)
(* one given to search and no operation changes it.                        *)

SessionOps == {"Results.status", "Results.results"}

FailureRaised ==
    /\ lastCall.end.outcome = "raise"
    /\ lastCall.end.exc = Raw.exc

FailureStored(i) ==
    /\ lastCall.end.outcome = "return"
    /\ Len(sessions) >= i
    /\ sessions[i].exception = Raw.exc

C8_FailureRaisedOrStored ==
    /\ (lastCall.op = "search" /\ "raise_errors" \in DOMAIN lastCall.args.kw) =>
          /\ Raw.outcome = "raise" =>
                IF lastCall.args.kw.raise_errors
                THEN FailureRaised ELSE FailureStored(1)
          /\ lastCall.end.outcome = "return" =>
                /\ Len(sessions) = 1
                /\ sessions[1].raise_errors = lastCall.args.kw.raise_errors
    /\ lastCall.op \in SessionOps =>
          /\ sessions[lastCall.args.session].raise_errors
                = lastCall.args.was.raise_errors
          /\ Raw.outcome = "raise" =>
                IF lastCall.args.was.raise_errors
                THEN FailureRaised ELSE FailureStored(lastCall.args.session)

C8_Witness ==
    /\ lastCall.op = "Results.results"
    /\ ~lastCall.args.was.raise_errors
    /\ Raw.outcome = "raise"
    /\ FailureStored(lastCall.args.session)

----------------------------------------------------------------------------
(* C9: reading a Record's identifier sends no request; the first read of   *)
(* another attribute sends exactly one request, a GET of the details of    *)
(* that identifier; a read of a populated Record sends none; a failed      *)
(* fetch leaves the Record unpopulated and a fetch that returns populates  *)
(* it.                                                                     *)

C9_FetchOnce ==
    /\ lastCall.op = "Compound.identifier" =>
          /\ Sent = <<>>
          /\ lastCall.end.value = lastCall.args.was.identifier
          /\ records[lastCall.args.record] = lastCall.args.was
    /\ lastCall.op = "Compound.attribute" =>
          IF lastCall.args.was.populated
          THEN /\ Sent = <<>>
               /\ lastCall.end.outcome = "return"
               /\ records[lastCall.args.record] = lastCall.args.was
          ELSE /\ Len(Sent) = 1
               /\ Sent[1].verb = "GET"
               /\ Sent[1].url = DetailsUrl(lastCall.args.was.identifier, AllFields)
               /\ records[lastCall.args.record].identifier
                     = lastCall.args.was.identifier
               /\ records[lastCall.args.record].populated
                     = (lastCall.end.outcome = "return")

\* a second read of an attribute, answered from the Record
C9_Witness ==
    /\ lastCall.op = "Compound.attribute"
    /\ lastCall.args.was.populated
    /\ Sent = <<>>
    /\ lastCall.end.value = DetailsPayload(lastCall.args.was.identifier)

----------------------------------------------------------------------------
(* C10: get_compound and get_compounds send no request and leave the       *)
(* session headers and the remote service as they were; get_compounds      *)
(* returns one unpopulated Record handle per input identifier, in input    *)
(* order, repeated identifiers included, each with the identifier given.   *)

C10_LookupsConstructOnly ==
    /\ lastCall.op \in {"get_compound", "get_compounds"} =>
          /\ Sent = <<>>
          /\ lastCall.end.outcome = "return"
          /\ headers = lastCall.pre.headers
          /\ remote = lastCall.pre.remote
          /\ apikey = constructed.apikey
          /\ api_url = constructed.api_url
    /\ lastCall.op = "get_compound" =>
          /\ lastCall.end.value.identifier = lastCall.args.csid
          /\ ~lastCall.end.value.populated
    /\ lastCall.op = "get_compounds" =>
          /\ Len(lastCall.end.value) = Len(lastCall.args.csids)
          /\ \A i \in 1..Len(lastCall.args.csids) :
                /\ lastCall.end.value[i].identifier = lastCall.args.csids[i]
                /\ ~lastCall.end.value[i].populated

C10_Witness ==
    /\ lastCall.op = "get_compounds"
    /\ lastCall.args.csids = <<"2", "2">>
    /\ Len(lastCall.end.value) = 2
    /\ "apikey" \in DOMAIN headers

----------------------------------------------------------------------------
(* C11: whenever request gets a response whose status is one of 400, 401,  *)
(* 404, 405, 413, 429, it raises ChemSpiPyAuthError and returns no         *)
(* payload, whether the body decodes or not; for 401 the message of the    *)
(* error names the failure as an authorization failure ("Unauthorized").   *)

AuthCodes == {400, 401, 404, 405, 413, 429}

StartsWith(msg, word) ==
    /\ Len(msg) >= Len(word)
    /\ SubSeq(msg, 1, Len(word)) = word

\* C11: a 4xx rejection raises ChemSpiPyAuthError, 401 as "Unauthorized"
C11_AuthErrorOn4xx ==
    GotStatus(AuthCodes) =>
        /\ lastCall.end.outcome = "raise"
        /\ lastCall.end.exc = "ChemSpiPyAuthError"
        /\ lastCall.end.value = NoneVal
        /\ Responses[1].status_code = 401 =>
               StartsWith(lastCall.end.msg, "Unauthorized")
        /\ Responses[1].status_code # 401 =>
               ~StartsWith(lastCall.end.msg, "Unauthorized")

\* a POST of request was answered 401 with a body that decodes
C11_Witness ==
    /\ GotStatus({401})
    /\ Responses[1].decodable
    /\ lastCall.end.exc = "ChemSpiPyAuthError"
    /\ lastCall.args.http_verb = "POST"

----------------------------------------------------------------------------
(* C12: a response of status 200 whose body does not decode makes request  *)
(* raise ChemSpiPyParseError and return no payload; request returns a      *)
(* payload only for a status 200 whose body decodes (and then that         *)
(* payload); the status is tested before the body is decoded, so a         *)
(* response of another status never raises ChemSpiPyParseError.            *)

Undecodable200 == GotStatus({200}) /\ ~Responses[1].decodable

\* C12: ChemSpiPyParseError exactly for an undecodable 200, a payload only for
\* a decodable 200
C12_ParseErrorOnlyOnAccepted ==
    lastCall.op = "request" =>
        /\ Undecodable200 =>
              /\ lastCall.end.outcome = "raise"
              /\ lastCall.end.exc = "ChemSpiPyParseError"
              /\ lastCall.end.value = NoneVal
        /\ lastCall.end.outcome = "return" =>
              /\ GotStatus({200})
              /\ Responses[1].decodable
              /\ lastCall.end.value = Responses[1].payload
        /\ lastCall.end.exc = "ChemSpiPyParseError" => Undecodable200
        /\ lastCall.end.outcome = "raise" => lastCall.end.value = NoneVal

\* a GET of request was answered 200 with a body that does not decode
C12_Witness ==
    /\ lastCall.op = "request"
    /\ Undecodable200
    /\ lastCall.end.exc = "ChemSpiPyParseError"
    /\ lastCall.args.http_verb = "GET"

----------------------------------------------------------------------------
(* C13: a GET of request that is given a fields list sends a URL that ends *)
(* in the fields query parameter, the list joined by commas, with or       *)
(* without a record_id, and with the record_id in the path when one is     *)
(* given; a POST sends the data payload as the body of its request; a call *)
(* whose verb is neither GET nor POST sends no HTTP request.               *)

\* The path the claim describes: the record_id, when given, between the api
\* and the endpoint.
ClaimedPath(a) ==
    IF a.record_id # NoneVal
    THEN api_url \o "/" \o a.api \o "/" \o a.record_id \o "/" \o a.endpoint
    ELSE api_url \o "/" \o a.api \o "/" \o a.endpoint

\* C13: fields go into the query of a GET, data into the body of a POST,
\* and no other verb sends a request
C13_ParameterPlacement ==
    lastCall.op = "request" =>
        LET a == lastCall.args IN
        /\ (a.http_verb = "GET" /\ "fields" \in DOMAIN a.params) =>
              /\ Len(Sent) = 1
              /\ Sent[1].verb = "GET"
              /\ Sent[1].url = ClaimedPath(a) \o "?fields=" \o Join(a.params.fields)
        /\ (a.http_verb = "POST" /\ "data" \in DOMAIN a.params) =>
              /\ Len(Sent) = 1
              /\ Sent[1].verb = "POST"
              /\ Sent[1].body = a.params.data
        /\ a.http_verb \notin {"GET", "POST"} => Sent = <<>>

============================================================================
